---- MODULE Spec2Model ----
(***************************************************************************)
(* fhub real-time subscription (src/fhub/real_time.py): the Ticker record, *)
(* Subscription.connect / close on the caller's thread, and the websocket  *)
(* thread that runs run_forever and calls the Subscription's hooks         *)
(* (__on_open, __on_message -> _feeder, __on_close, __on_error).           *)
(*                                                                         *)
(* Python values that may be None are modelled as sequences of length at   *)
(* most one: None is <<>>, the value v is <<v>>.                           *)
(***************************************************************************)
EXTENDS Integers, Sequences, FiniteSets, TLC

VARIABLES
    tickers,      \* self.tickers: symbol -> Ticker (the dict's contents)
    tickerKeys,   \* insertion order of the keys of self.tickers
    tickersId,    \* identity of the dict object self.tickers refers to
    max_history,  \* self.max_history
    on_tick,      \* self.on_tick
    ws,           \* self.ws: index into apps, 0 for None
    apps,         \* every WebSocketApp created so far, with its thread
    caller,       \* the caller's thread: position, locals, last exception
    frames,       \* log of the frames handed to __on_message, in order
    calls         \* log of the invocations of the user callback, in order

vars == <<tickers, tickerKeys, tickersId, max_history, on_tick, ws, apps, caller,
          frames, calls>>

(***************************************************************************)
(* Bounds of the model.                                                    *)
(***************************************************************************)
MaxFrames == 2        \* frames received
MaxTrades == 2        \* records in the data lists of all frames together
MaxConnects == 2      \* calls of connect() on one Subscription
ReconnectFrames == 1  \* frames received, when connect() is called again
ReconnectTrades == 1  \* records in all frames, when connect() is called again
MaxHistory == 1     \* largest max_history argument
MaxTimeout == 1     \* largest timeout argument

None == <<>>
Some(v) == <<v>>

Symbols == {"A", "B"}

\* the symbols argument of connect(): a list, possibly with a repeated symbol
SymbolLists == {<<"A">>, <<"A", "B">>, <<"B", "B">>}

\* the on_tick argument: None, a plain function, a bound method
Callbacks == {"None", "function", "method"}

\* the k-th record the server sends, for symbol s: records are told apart by
\* their price k, with volume 10k and time 1000k + 500 ms
TradeRecord(s, k) == [s |-> s, p |-> k, v |-> 10 * k, t |-> 1000 * k + 500]

RECURSIVE SeqsUpTo(_, _)
SeqsUpTo(S, n) ==
    IF n = 0 THEN {<<>>}
    ELSE LET shorter == SeqsUpTo(S, n - 1)
         IN  shorter \cup {Append(q, x) : q \in {r \in shorter : Len(r) = n - 1}, x \in S}

\* the data lists of up to n records of a frame sent after k records: any
\* symbols, in any order
DataLists(k, n) ==
    {[i \in 1..Len(syms) |-> TradeRecord(syms[i], k + i)] : syms \in SeqsUpTo(Symbols, n)}

\* the raw messages the server may send after k records: text that json.loads
\* rejects, trade frames with or without a data list, error frames with or
\* without the "msg" key, frames of another type with or without a data list
NoJson == [type |-> "", hasData |-> FALSE, data |-> <<>>, hasMsg |-> FALSE]
Messages(k, maxTrades) ==
    {[parses |-> FALSE, json |-> NoJson]}
    \cup {[parses |-> TRUE,
           json |-> [type |-> "trade", hasData |-> TRUE, data |-> d, hasMsg |-> FALSE]] :
             d \in DataLists(k, maxTrades - k)}
    \cup {[parses |-> TRUE,
           json |-> [type |-> ty, hasData |-> FALSE, data |-> <<>>, hasMsg |-> m]] :
             <<ty, m>> \in {<<"trade", FALSE>>, <<"error", TRUE>>,
                            <<"error", FALSE>>, <<"ping", FALSE>>}}
    \cup {[parses |-> TRUE,
           json |-> [type |-> "news", hasData |-> TRUE, data |-> d, hasMsg |-> FALSE]] :
             d \in DataLists(k, IF k < maxTrades THEN 1 ELSE 0) \ {<<>>}}

\* a frame of the wire protocol: it parses, and a frame of type "error"
\* carries its message
WellFormed(msg) == msg.parses /\ (msg.json.type = "error" => msg.json.hasMsg)

\* the number of records in the frames of a log
RECURSIVE NumRecords(_)
NumRecords(log) ==
    IF log = <<>> THEN 0
    ELSE Len(log[Len(log)].msg.json.data) + NumRecords(SubSeq(log, 1, Len(log) - 1))

(***************************************************************************)
(* Ticker                                                                  *)
(***************************************************************************)
\* Ticker.__init__; id is the identity of the new object (the dict it is
\* created for and the position in connect's loop)
Ticker(symbol, mh, id) ==
    [symbol |-> symbol, price |-> None, volume |-> None, datetime |-> None,
     max_history |-> mh, history |-> <<>>, id |-> id]

\* DataFrame.tail(n): the last n rows
DfTail(df, n) ==
    IF Len(df) <= n THEN df ELSE SubSeq(df, Len(df) - n + 1, Len(df))

\* datetime.fromtimestamp(v / 1000): seconds and microseconds
FromTimestamp(ms) == [sec |-> ms \div 1000, usec |-> (ms % 1000) * 1000]

\* Subscription._to_dict, the symbol already popped (line 143)
ToDict(data) ==
    [price |-> data.p, volume |-> data.v, datetime |-> FromTimestamp(data.t)]

\* line 143 with one symbol taken for every record
SymbolA(data) == "A"

\* line 143: _symbol = _info.pop('symbol')
InfoSymbol(data) == data.s

\* line 144: history is kept when self.max_history > 0
KeepsHistory(mh) == mh > 0

\* lines 145-146: history.append(_info, ignore_index=True).tail(max_history)
NewHistory(ticker, row) == DfTail(Append(ticker.history, row), ticker.max_history)

\* _info after lines 142-146: the row of the record, and under 'history' the
\* new history when one is kept
Info(row, history) ==
    [price |-> row.price, volume |-> row.volume, datetime |-> row.datetime,
     history |-> history]

\* the keys of _info in the dict's order, the order set_last_trade assigns
\* them in: with or without 'history'
AttrsWithHistory == <<"price", "volume", "datetime", "history">>
AttrsNoHistory == <<"price", "volume", "datetime">>

\* lines 31-33: setattr(self, _key, _value) for one key of _info
SetAttr(ticker, key, info) ==
    IF key = "history" THEN [ticker EXCEPT !.history = info.history]
    ELSE [ticker EXCEPT ![key] = Some(info[key])]

(***************************************************************************)
(* Subscription: construction                                              *)
(***************************************************************************)
\* no _info: no record is being handled
NoInfo == Info([price |-> 0, volume |-> 0, datetime |-> FromTimestamp(0)], <<>>)

\* a WebSocketApp (lines 89-94) and the thread that runs its run_forever
\* (lines 95-98): the socket, the thread's position, the exception that left
\* the last hook, the subscribe messages sent on the socket, whether the open
\* hook was called, and the locals of the running hook
NewApp ==
    [sock |-> "None", keep_running |-> TRUE, pc |-> "start", exc |-> "",
     sent |-> <<>>, opened |-> FALSE,
     keys |-> <<>>, dict |-> 0, i |-> 0,
     data |-> <<>>, frame |-> 0, info |-> NoInfo, attrs |-> <<>>, target |-> <<>>]

\* Subscription.__init__ (lines 47-57)
Init ==
    /\ tickers = <<>>
    /\ tickerKeys = <<>>
    /\ tickersId = 0
    /\ max_history = 0
    /\ on_tick = "None"
    /\ ws = 0
    /\ apps = <<>>
    /\ caller = [pc |-> "idle", symbols |-> <<>>, cb |-> "None", i |-> 0, tleft |-> 0,
                 exc |-> "", n |-> 0]
    /\ frames = <<>>
    /\ calls = <<>>

\* the process is running: sys.exit(1) has not ended it
Running == caller.pc # "exited"

(***************************************************************************)
(* Subscription.connect, on the caller's thread                            *)
(***************************************************************************)
\* The arguments of a call of connect are drawn where connect first reads
\* them: max_history at line 75, symbols at line 77, timeout and on_tick at
\* lines 79-80.
\* lines 59-75: the call, and self.max_history = max_history
ConnectCall(mh) ==
    /\ max_history' = mh
    /\ caller' = [caller EXCEPT !.pc = "L76", !.exc = "", !.n = @ + 1]
    /\ UNCHANGED <<tickers, tickerKeys, tickersId, on_tick, ws, apps,
                   frames, calls>>

\* connect() on a new Subscription
Connect(mh) ==
    /\ caller.pc = "idle"
    /\ ConnectCall(mh)

\* connect() called again on the same Subscription, after close() or not
Reconnect(mh) ==
    /\ caller.pc \in {"returned", "closed"}
    /\ caller.n < MaxConnects
    /\ ConnectCall(mh)

\* lines 76-77: self.tickers = {}, and the loop over symbols begins
NewTickers(symbols) ==
    /\ caller.pc = "L76"
    /\ tickers' = <<>>
    /\ tickerKeys' = <<>>
    /\ tickersId' = tickersId + 1
    /\ caller' = [caller EXCEPT !.pc = "L77", !.symbols = symbols, !.i = 1]
    /\ UNCHANGED <<max_history, on_tick, ws, apps, frames, calls>>

\* line 77 with the loop stopping after the first symbol
FirstSymbolOnly(i, symbols) == i <= 1

\* line 77: the for loop has another symbol to take
MoreSymbols(i, symbols) == i <= Len(symbols)

\* lines 77-78: self.tickers[_symbol] = Ticker(_symbol, self.max_history)
AddTicker ==
    /\ caller.pc = "L77"
    /\ MoreSymbols(caller.i, caller.symbols)
    /\ LET s == caller.symbols[caller.i]
       IN  /\ tickers' = (s :> Ticker(s, max_history, <<tickersId, caller.i>>)) @@ tickers
           /\ tickerKeys' = IF s \in DOMAIN tickers THEN tickerKeys
                            ELSE Append(tickerKeys, s)
    /\ caller' = [caller EXCEPT !.i = @ + 1]
    /\ UNCHANGED <<tickersId, max_history, on_tick, ws, apps, frames, calls>>

\* line 80: isinstance(on_tick, types.FunctionType)
IsFunctionType(cb) == cb = "function"

\* lines 79-81: self.timeout = timeout, and self.on_tick = on_tick for a
\* function. self.timeout is read at line 99 alone, by this call of connect:
\* it is kept in the caller's tleft, which becomes _timeout there. The
\* caller's symbols and cb stay what this call of connect was given.
SetOnTick(cb, to) ==
    /\ caller.pc = "L77"
    /\ ~MoreSymbols(caller.i, caller.symbols)
    /\ on_tick' = IF IsFunctionType(cb) THEN cb ELSE on_tick
    /\ caller' = [caller EXCEPT !.pc = "L89", !.cb = cb, !.i = 0, !.tleft = to]
    /\ UNCHANGED <<tickers, tickerKeys, tickersId, max_history, ws, apps, frames, calls>>

\* lines 82-99: self.ws = WebSocketApp(...), the thread is started, and
\* _timeout = self.timeout
StartTransport ==
    /\ caller.pc = "L89"
    /\ apps' = Append(apps, NewApp)
    /\ ws' = Len(apps) + 1
    /\ caller' = [caller EXCEPT !.pc = "L100"]
    /\ UNCHANGED <<tickers, tickerKeys, tickersId, max_history, on_tick,
                   frames, calls>>

\* line 100: not self.ws.sock or not self.ws.sock.connected
NotConnected == apps[ws].sock # "connected"

\* line 100: the loop's test
KeepsPolling(t) == NotConnected /\ t # 0

\* line 103: if not _timeout
ExitsOnTimeout(t) == t = 0

\* lines 100-102: one turn of the loop: sleep(1); _timeout -= 1
PollSleep ==
    /\ caller.pc = "L100"
    /\ KeepsPolling(caller.tleft)
    /\ caller' = [caller EXCEPT !.tleft = @ - 1]
    /\ UNCHANGED <<tickers, tickerKeys, tickersId, max_history, on_tick, ws,
                   apps, frames, calls>>

\* lines 103-105: the loop has ended and _timeout is 0: sys.exit(1)
ConnectExit ==
    /\ caller.pc = "L100"
    /\ ~KeepsPolling(caller.tleft)
    /\ ExitsOnTimeout(caller.tleft)
    /\ caller' = [caller EXCEPT !.pc = "exited", !.exc = "SystemExit"]
    /\ UNCHANGED <<tickers, tickerKeys, tickersId, max_history, on_tick, ws,
                   apps, frames, calls>>

\* lines 100, 103: the loop has ended with _timeout left: connect returns
ConnectReturn ==
    /\ caller.pc = "L100"
    /\ ~KeepsPolling(caller.tleft)
    /\ ~ExitsOnTimeout(caller.tleft)
    /\ caller' = [caller EXCEPT !.pc = "returned", !.tleft = 0]
    /\ UNCHANGED <<tickers, tickerKeys, tickersId, max_history, on_tick, ws,
                   apps, frames, calls>>

(***************************************************************************)
(* Subscription.close, on the caller's thread                              *)
(***************************************************************************)
\* lines 136-137: self.ws.close(); with self.ws None the attribute lookup
\* raises AttributeError. WebSocketApp.close clears keep_running and closes
\* and drops the socket.
Close ==
    /\ caller.pc \in {"idle", "returned", "closed"}
    /\ IF ws = 0
       THEN /\ caller' = [caller EXCEPT !.exc = "AttributeError"]
            /\ UNCHANGED apps
       ELSE /\ apps' = [apps EXCEPT ![ws].keep_running = FALSE, ![ws].sock = "None"]
            /\ caller' = [caller EXCEPT !.pc = "closed", !.exc = ""]
    /\ UNCHANGED <<tickers, tickerKeys, tickersId, max_history, on_tick, ws,
                   frames, calls>>

(***************************************************************************)
(* The websocket thread of app c: WebSocketApp.run_forever connects, calls *)
(* the open hook, then calls the message hook for each frame until the     *)
(* connection ends, and calls the close hook. An exception that leaves a   *)
(* hook is caught by the WebSocketApp and recorded here in exc.            *)
(***************************************************************************)
Apps == 1..Len(apps)

\* the hook running on app c ends by raising e: the thread is back in its loop
Raise(c, e) ==
    [apps EXCEPT ![c].pc = "recv", ![c].exc = e, ![c].data = <<>>, ![c].attrs = <<>>,
                 ![c].keys = <<>>, ![c].info = NoInfo, ![c].target = <<>>]

\* lines 95-96: run_forever opens the socket; the open hook is next
TransportOpen(c) ==
    /\ Running
    /\ apps[c].pc = "start"
    /\ apps' = [apps EXCEPT ![c].sock = "connected", ![c].pc = "on_open"]
    /\ UNCHANGED <<tickers, tickerKeys, tickersId, max_history, on_tick, ws,
                   caller, frames, calls>>

\* lines 130-134: the connection cannot be opened, or it ends while the
\* thread waits for a frame: __on_error (on a failure) and __on_close
TransportEnd(c) ==
    /\ Running
    /\ \/ apps[c].pc = "start"
       \/ apps[c].pc = "recv" /\ apps[c].keep_running /\ apps[c].sock = "connected"
    /\ apps' = [apps EXCEPT ![c].sock = "None", ![c].keep_running = FALSE,
                            ![c].pc = "done"]
    /\ UNCHANGED <<tickers, tickerKeys, tickersId, max_history, on_tick, ws,
                   caller, frames, calls>>

\* lines 130-131: after close() the loop ends: __on_close
TransportStop(c) ==
    /\ Running
    /\ apps[c].pc = "recv"
    /\ ~apps[c].keep_running
    /\ apps' = [apps EXCEPT ![c].sock = "None", ![c].pc = "done"]
    /\ UNCHANGED <<tickers, tickerKeys, tickersId, max_history, on_tick, ws,
                   caller, frames, calls>>

\* line 126: __on_open starts iterating self.tickers.keys()
OnOpen(c) ==
    /\ Running
    /\ apps[c].pc = "on_open"
    /\ apps' = [apps EXCEPT ![c].pc = "send", ![c].exc = "", ![c].opened = TRUE,
                            ![c].keys = tickerKeys, ![c].dict = tickersId, ![c].i = 1]
    /\ UNCHANGED <<tickers, tickerKeys, tickersId, max_history, on_tick, ws,
                   caller, frames, calls>>

\* line 126: the dict being iterated has changed size since the loop began
DictChanged(c) == apps[c].dict = tickersId /\ Len(tickerKeys) # Len(apps[c].keys)

\* line 127: self.ws.send succeeds on a connected socket
CanSend == ws # 0 /\ apps[ws].sock = "connected"

\* lines 126-128: one turn of the loop of __on_open: the next key is sent as
\* a subscribe message on self.ws; after the last key the hook returns
OnOpenSend(c) ==
    /\ Running
    /\ apps[c].pc = "send"
    /\ apps' =
         IF DictChanged(c) THEN Raise(c, "RuntimeError")
         ELSE IF apps[c].i > Len(apps[c].keys)
              THEN [apps EXCEPT ![c].pc = "recv", ![c].keys = <<>>]
         ELSE IF ~CanSend THEN Raise(c, "WebSocketConnectionClosedException")
         ELSE [apps EXCEPT ![ws].sent = Append(@, apps[c].keys[apps[c].i]),
                           ![c].i = apps[c].i + 1]
    /\ UNCHANGED <<tickers, tickerKeys, tickersId, max_history, on_tick, ws,
                   caller, frames, calls>>

\* line 119: json.loads(msg)
JsonLoads(msg) == [ok |-> msg.parses, value |-> msg.json]

\* line 120 with the test on the type dropped
IsAnyType(json) == TRUE

\* line 120: _json['type'] == 'trade'
IsTrade(json) == json.type = "trade"

\* line 122: _json['type'] == 'error'
IsError(json) == json.type = "error"

\* line 123: _json['msg'] raises KeyError when the frame has no such key
HasMsg(json) == json.hasMsg

\* line 140: 'data' in _json.keys()
HasData(json) == json.hasData

\* lines 117-123 and 139-141: a frame is received and __on_message is called
\* with it; for a trade frame with data _feeder starts on its first record
OnMessage(c, msg) ==
    /\ Running
    /\ apps[c].pc = "recv"
    /\ apps[c].keep_running
    /\ apps[c].sock = "connected"
    /\ frames' = Append(frames, [app |-> c, msg |-> msg, dict |-> tickersId])
    /\ LET parsed == JsonLoads(msg)
       IN  apps' =
             IF ~parsed.ok THEN Raise(c, "JSONDecodeError")
             ELSE IF IsTrade(parsed.value) /\ HasData(parsed.value)
                     /\ parsed.value.data # <<>>
                  THEN [apps EXCEPT ![c].pc = "feed", ![c].exc = "",
                                    ![c].data = parsed.value.data,
                                    ![c].frame = Len(frames) + 1]
             ELSE IF ~IsTrade(parsed.value) /\ IsError(parsed.value)
                     /\ ~HasMsg(parsed.value)
                  THEN Raise(c, "KeyError 'msg'")
             ELSE [apps EXCEPT ![c].exc = ""]
    /\ UNCHANGED <<tickers, tickerKeys, tickersId, max_history, on_tick, ws,
                   caller, calls>>

\* lines 141 and 149: the loop of _feeder moves on to the next record
NextRecord(c) ==
    [apps EXCEPT ![c].data = Tail(@),
                 ![c].pc = IF Tail(apps[c].data) = <<>> THEN "recv" ELSE "feed",
                 ![c].attrs = <<>>, ![c].info = NoInfo, ![c].target = <<>>]

\* lines 142-146: _info for the record, with the new history when
\* self.max_history > 0; self.tickers[_symbol] raises KeyError for a symbol
\* that is not a key
FeedInfo(c) ==
    /\ Running
    /\ apps[c].pc = "feed"
    /\ LET data == Head(apps[c].data)
           symbol == InfoSymbol(data)
       IN  apps' =
             IF ~KeepsHistory(max_history)
             THEN [apps EXCEPT ![c].pc = "L147", ![c].attrs = AttrsNoHistory,
                               ![c].info = Info(ToDict(data), <<>>)]
             ELSE IF symbol \notin DOMAIN tickers THEN Raise(c, "KeyError")
             ELSE [apps EXCEPT ![c].pc = "L147", ![c].attrs = AttrsWithHistory,
                               ![c].info = Info(ToDict(data),
                                                NewHistory(tickers[symbol], ToDict(data)))]
    /\ UNCHANGED <<tickers, tickerKeys, tickersId, max_history, on_tick, ws,
                   caller, frames, calls>>

\* line 147: self.tickers[_symbol] is looked up for set_last_trade
FeedLookup(c) ==
    /\ Running
    /\ apps[c].pc = "L147"
    /\ LET symbol == InfoSymbol(Head(apps[c].data))
       IN  apps' =
             IF symbol \notin DOMAIN tickers THEN Raise(c, "KeyError")
             ELSE [apps EXCEPT ![c].pc = "set", ![c].target = tickers[symbol].id]
    /\ UNCHANGED <<tickers, tickerKeys, tickersId, max_history, on_tick, ws,
                   caller, frames, calls>>

\* lines 31-33: set_last_trade assigns the next attribute of the Ticker
\* object found at line 147 (no longer in self.tickers after a new connect)
FeedSetAttr(c) ==
    /\ Running
    /\ apps[c].pc = "set"
    /\ LET symbol == InfoSymbol(Head(apps[c].data))
           key == Head(apps[c].attrs)
       IN  tickers' =
             IF symbol \in DOMAIN tickers /\ tickers[symbol].id = apps[c].target
             THEN [tickers EXCEPT ![symbol] = SetAttr(@, key, apps[c].info)]
             ELSE tickers
    /\ apps' = [apps EXCEPT ![c].attrs = Tail(@),
                            ![c].pc = IF Tail(apps[c].attrs) = <<>> THEN "L148" ELSE "set"]
    /\ UNCHANGED <<tickerKeys, tickersId, max_history, on_tick, ws,
                   caller, frames, calls>>

\* lines 148-149: self.on_tick(self.tickers[_symbol]) when self.on_tick is
\* set; the user's function returns or raises
FeedTick(c, raises) ==
    /\ Running
    /\ apps[c].pc = "L148"
    /\ LET symbol == InfoSymbol(Head(apps[c].data))
       IN  IF on_tick = "None"
           THEN /\ ~raises
                /\ apps' = NextRecord(c)
                /\ calls' = calls
           ELSE IF symbol \notin DOMAIN tickers
           THEN /\ ~raises
                /\ apps' = Raise(c, "KeyError")
                /\ calls' = calls
           ELSE /\ calls' = Append(calls, [app |-> c, on_tick |-> on_tick,
                                           ticker |-> tickers[symbol],
                                           frame |-> apps[c].frame,
                                           raised |-> raises])
                /\ apps' = IF raises THEN Raise(c, "CallbackError") ELSE NextRecord(c)
    /\ UNCHANGED <<tickers, tickerKeys, tickersId, max_history, on_tick, ws,
                   caller, frames>>

\* the server sends app c one more frame, within the bounds
Receive(c, maxFrames, maxTrades) ==
    /\ Len(frames) < maxFrames
    /\ \E msg \in Messages(NumRecords(frames), maxTrades) : OnMessage(c, msg)

\* every step but the calls of connect and the receipt of a frame
Other ==
    \/ \E symbols \in SymbolLists : NewTickers(symbols)
    \/ AddTicker
    \/ \E cb \in Callbacks, to \in 0..MaxTimeout : SetOnTick(cb, to)
    \/ StartTransport
    \/ PollSleep
    \/ ConnectExit
    \/ ConnectReturn
    \/ Close
    \/ \E c \in Apps : TransportOpen(c)
    \/ \E c \in Apps : TransportEnd(c)
    \/ \E c \in Apps : TransportStop(c)
    \/ \E c \in Apps : OnOpen(c)
    \/ \E c \in Apps : OnOpenSend(c)
    \/ \E c \in Apps : FeedInfo(c)
    \/ \E c \in Apps : FeedLookup(c)
    \/ \E c \in Apps : FeedSetAttr(c)
    \/ \E c \in Apps, raises \in BOOLEAN : FeedTick(c, raises)

\* a Subscription that is connected once
Next ==
    \/ \E mh \in 0..MaxHistory : Connect(mh)
    \/ \E c \in Apps : Receive(c, MaxFrames, MaxTrades)
    \/ Other

Spec == Init /\ [][Next]_vars

\* a Subscription on which connect() is called up to MaxConnects times
NextReconnect ==
    \/ \E mh \in 0..MaxHistory : Connect(mh)
    \/ \E mh \in 0..MaxHistory : Reconnect(mh)
    \/ \E c \in Apps : Receive(c, ReconnectFrames, ReconnectTrades)
    \/ Other

SpecReconnect == Init /\ [][NextReconnect]_vars

(***************************************************************************)
(* Properties                                                              *)
(***************************************************************************)
Last(q) == q[Len(q)]

\* connect has returned to the caller
Connected == caller.pc \in {"returned", "closed"}

\* no record is being handled: every trade received has been dealt with
Quiescent == \A c \in Apps : apps[c].pc \in {"start", "on_open", "send", "recv", "done"}

\* a frame of the log that __on_message hands to _feeder with a data list
IsTradeFrame(f) == f.msg.parses /\ f.msg.json.type = "trade" /\ f.msg.json.hasData

\* the trades for symbol s in the trade frames of a log, in arrival order,
\* as history rows
RECURSIVE RowsFor(_, _)
RowsFor(s, log) ==
    IF log = <<>> THEN <<>>
    ELSE RowsFor(s, SubSeq(log, 1, Len(log) - 1))
         \o (IF IsTradeFrame(Last(log))
             THEN LET data == Last(log).msg.json.data
                      mine == SelectSeq(data, LAMBDA d : d.s = s)
                  IN  [i \in 1..Len(mine) |-> ToDict(mine[i])]
             ELSE <<>>)

\* C1: for every tracked symbol with max_history = H > 0, once the N trades
\* received for it have been handled, its history is the last min(N, H) of
\* them in arrival order.
C1_HistoryIsLastTrades ==
    (Connected /\ Quiescent) =>
        \A s \in DOMAIN tickers :
            tickers[s].max_history > 0 =>
                tickers[s].history = DfTail(RowsFor(s, frames), tickers[s].max_history)

\* C2: the history of a Ticker created with max_history = 0 is empty in
\* every reachable state.
C2_HistoryStaysEmpty ==
    \A s \in DOMAIN tickers : tickers[s].max_history = 0 => tickers[s].history = <<>>

\* C3: no call of connect ends the process (connect never reaches
\* sys.exit, and SystemExit is never raised in the caller's thread).
C3_ConnectNeverExits == caller.pc # "exited" /\ caller.exc # "SystemExit"

\* C4: once close() has returned, no step invokes the callback or changes a
\* Ticker.
C4_NoDispatchAfterClose ==
    [][(caller.pc = "closed" /\ caller'.pc = "closed")
         => (calls' = calls /\ tickers' = tickers)]_vars

\* C5: a record for a symbol that is not tracked raises no error (the lookup
\* of the symbol in self.tickers never fails).
C5_UntrackedRaisesNothing == \A c \in Apps : apps[c].exc # "KeyError"

\* C6: an exception raised by the user callback does not leave _feeder.
C6_CallbackErrorCaught == \A c \in Apps : apps[c].exc # "CallbackError"

\* C7: the failure to parse a frame does not leave __on_message.
C7_DecodeErrorCaught == \A c \in Apps : apps[c].exc # "JSONDecodeError"

C9_CloseNeverRaises == caller.exc # "AttributeError"

\* C10: once the open hook of an app has run, exactly one subscribe message
\* has been sent on it for each tracked symbol.
C10_OneSubscribePerSymbol ==
    \A c \in Apps :
        (apps[c].opened /\ apps[c].pc \notin {"on_open", "send"})
            => apps[c].sent = tickerKeys

\* the symbols of a list
Range(q) == {q[i] : i \in 1..Len(q)}

\* the call of connect in progress or last made has started its transport
\* (line 98 is behind it)
TransportStarted == caller.pc \in {"L100", "returned", "closed", "exited"}

\* C11: from the moment connect has started its transport, and whenever the
\* thread of that transport has left its starting point, self.tickers has
\* exactly the symbols passed to that connect as keys, each key once and
\* each mapped to a Ticker of that symbol, whatever the receive thread does.
C11_OneTickerPerSymbol ==
    (TransportStarted \/ (caller.n \in Apps /\ apps[caller.n].pc # "start")) =>
        /\ DOMAIN tickers = Range(caller.symbols)
        /\ Range(tickerKeys) = DOMAIN tickers
        /\ Len(tickerKeys) = Cardinality(DOMAIN tickers)
        /\ \A s \in DOMAIN tickers : tickers[s].symbol = s

\* two symbols are tracked and trades for both have been dispatched into
\* the mapping
C11_TwoSymbolsDispatched ==
    /\ TransportStarted
    /\ DOMAIN tickers = {"A", "B"}
    /\ \A s \in DOMAIN tickers : tickers[s].price # None

\* the records for tracked symbols in the trade frames of a log, in
\* arrival order
RECURSIVE TrackedTrades(_)
TrackedTrades(log) ==
    IF log = <<>> THEN <<>>
    ELSE TrackedTrades(SubSeq(log, 1, Len(log) - 1))
         \o (IF IsTradeFrame(Last(log))
             THEN SelectSeq(Last(log).msg.json.data, LAMBDA d : d.s \in DOMAIN tickers)
             ELSE <<>>)

\* the Ticker passed to a callback invocation shows the trade d applied
ShowsTrade(ticker, d) ==
    /\ ticker.symbol = d.s
    /\ ticker.price = Some(ToDict(d).price)
    /\ ticker.volume = Some(ToDict(d).volume)
    /\ ticker.datetime = Some(ToDict(d).datetime)

\* C12: with a callback installed, once the frames received have been
\* handled, the callback has been invoked exactly once per trade of a
\* tracked symbol, in the order of receipt, each time with the Ticker
\* already showing that trade.
C12_OneCallbackPerTradeInOrder ==
    (Connected /\ Quiescent /\ on_tick # "None") =>
        LET trades == TrackedTrades(frames)
        IN  /\ Len(calls) = Len(trades)
            /\ \A i \in 1..Len(calls) :
                  i <= Len(trades) => ShowsTrade(calls[i].ticker, trades[i])

\* C13: a step of a receive thread changes the Ticker of a symbol only when
\* that thread is applying a trade record of that very symbol; the Tickers
\* of all other symbols are left as they were.
C13_OnlyOwnTickerChanges ==
    [][caller' = caller =>
         \A s \in DOMAIN tickers :
             tickers'[s] # tickers[s] =>
                 \E c \in Apps : /\ apps[c].pc = "set"
                                  /\ apps'[c] # apps[c]
                                  /\ Head(apps[c].data).s = s
                                  /\ \A o \in DOMAIN tickers \ {s} :
                                        tickers'[o] = tickers[o]]_vars

\* trades of two symbols have been applied, one after the other
C13_BothSymbolsTraded ==
    /\ DOMAIN tickers = {"A", "B"}
    /\ tickers["A"].price # None
    /\ tickers["B"].price # None
    /\ tickers["A"].price # tickers["B"].price

\* C14: once the frames received have been handled, the price, volume and
\* datetime of every Ticker are unset when no trade of its symbol was
\* received and otherwise are those of the last trade received for the
\* symbol; the symbol of a Ticker is the one it was created with.
C14_LatestTradeValues ==
    (Connected /\ Quiescent) =>
        \A s \in DOMAIN tickers :
            LET rows == RowsFor(s, frames)
                t == tickers[s]
            IN  /\ t.symbol = s
                /\ IF rows = <<>>
                   THEN t.price = None /\ t.volume = None /\ t.datetime = None
                   ELSE /\ t.price = Some(Last(rows).price)
                        /\ t.volume = Some(Last(rows).volume)
                        /\ t.datetime = Some(Last(rows).datetime)

\* C15: connect signals failure only when the transport is still not
\* connected as the polling ends: a connect that leaves its polling loop
\* with the transport connected returns normally.
C15_ConnectedMeansReturn ==
    [][(caller.pc = "L100" /\ caller'.pc # "L100" /\ ~NotConnected)
         => caller'.pc = "returned"]_vars

\* the apps whose socket is connected and whose thread is in its loop
LiveApps == {c \in Apps : apps[c].sock = "connected" /\ apps[c].pc # "done"}

\* C16: at most one transport of a Subscription is live at any time, and a
\* frame is handed to __on_message only by the transport of the most
\* recent connect.
C16_SingleLiveTransport ==
    /\ Cardinality(LiveApps) <= 1
    /\ \A i \in 1..Len(frames) : frames[i].dict = tickersId => frames[i].app = ws

\* the price, volume and datetime of a Ticker are those of one row, which
\* is also the last row of its history when a history is kept
ShowsRow(t, row) ==
    /\ t.price = Some(row.price)
    /\ t.volume = Some(row.volume)
    /\ t.datetime = Some(row.datetime)
    /\ t.max_history > 0 => (t.history # <<>> /\ Last(t.history) = row)

\* C17: in every state after connect has returned, where a reader on the
\* caller's thread may read the Tickers, each Ticker either shows no trade
\* at all or shows one and the same received trade in its price, volume,
\* datetime and last history row.
C17_NoPartialTrade ==
    Connected =>
        \A s \in DOMAIN tickers :
            LET t == tickers[s]
                rows == RowsFor(s, frames)
            IN  \/ /\ t.price = None /\ t.volume = None
                   /\ t.datetime = None /\ t.history = <<>>
                \/ \E i \in 1..Len(rows) : ShowsRow(t, rows[i])

\* C18: every invocation of a callback made by the transport of the latest
\* connect invokes the on_tick that this connect was given; when it was
\* given none, that transport invokes no callback.
C18_CallbackOfTheSession ==
    \A i \in 1..Len(calls) :
        calls[i].app = caller.n => calls[i].on_tick = caller.cb

====
